---- MODULE Spec2Model ----
(***************************************************************************)
(* Model of cards.py: a deck of cards, the five-card poker hand evaluator  *)
(* (HandOfCards.analyse_poker_hand), the hand ranker (order_hands) and the *)
(* markers of the comparison report (str_hand_comparison).                 *)
(*                                                                         *)
(* Python values are encoded as follows.                                   *)
(*   Card       record [number, suit, points]                              *)
(*   score      <<primary, secondary>>; the secondary is a sequence: <<n>> *)
(*              for a Python int, <<a, b>> for a Python tuple, so that     *)
(*              isinstance(score[1], tuple) is Len(score[2]) = 2           *)
(*   kickers    record [none, list]: none = TRUE is Python's None          *)
(*   PokerHand  record [description, score, hand_cards, kickers,           *)
(*              sub_hands]; sub_hands holds the descriptions of the        *)
(*              sub-hands (no code reads the attribute)                    *)
(*   exception  the name of the exception class in a string, "" for none   *)
(***************************************************************************)
EXTENDS Integers, Sequences, FiniteSets, TLC

VARIABLES
    deck,          \* Deck.cards: the cards left in the deck
    drawn,         \* the cards pick_card has returned so far, in order
    hand_amount,   \* the hand_amount argument of get_list_of_poker_hands
    dealt,         \* HandOfCards.cards of the hands built so far
    poker_hands,   \* their poker_hand attributes: the list of PokerHand objects
    pc,            \* "draw": the list is being built; "draw_failed": a constructor
                   \* raised; "done": str_hand_comparison returned;
                   \* "report_failed": str_hand_comparison raised
    best_pos,      \* position in poker_hands of the hand order_hands returned
    kicker_det,    \* the kicker index order_hands returned
    best_index,    \* str_hand_comparison: best_index (0-based), -1 for None
    best_indices,  \* str_hand_comparison: best_indices (0-based)
    win_statement, \* the headline: [kind, hands], hands 1-based as printed
    report,        \* per hand, the marker line and the card lines
    raised         \* the exception raised, "" for none

vars == <<deck, drawn, hand_amount, dealt, poker_hands, pc, best_pos, kicker_det, best_index,
          best_indices, win_statement, report, raised>>

(***************************************************************************)
(* Bounds.  The decks of the model are sub-decks of the 52-card deck: a    *)
(* Deck object from which cards have already been picked.                  *)
(***************************************************************************)
\* evaluation deck: the numbers 1..EvalLow and 14-EvalHigh..13 in two suits,
\* the numbers 1..EvalFull in the other two suits as well
EvalLow == 5
EvalHigh == 5
EvalFull == 2
\* ranking decks: the first RankDeckSize cards of each list of RankCards
RankDeckSize == 11
\* largest hand_amount given to get_list_of_poker_hands
MaxHands == 3
\* whole decks: the number of outcomes of random.shuffle considered, and the
\* hand_amount of the hands built from a whole deck
MaxShuffles == 2
DeckHands == 2

AceNumber == 1
AcePoints == 14
HandSize == 5

Suits == <<"spade", "heart", "diamond", "club">>

(***************************************************************************)
(* Generic helpers for Python lists.                                       *)
(***************************************************************************)
Range(s) == {s[i] : i \in DOMAIN s}

Reversed(s) == [i \in DOMAIN s |-> s[Len(s) + 1 - i]]

\* the list s without the element at position i (list.pop(i), 1-based)
RemoveAt(s, i) == [j \in 1..(Len(s) - 1) |-> IF j < i THEN s[j] ELSE s[j + 1]]

\* Python's < on tuples of ints, decided from position i on: lexicographic,
\* a proper prefix is smaller
RECURSIVE TupleLessFrom(_, _, _)
TupleLessFrom(a, b, i) ==
    IF i > Len(b) THEN FALSE
    ELSE IF i > Len(a) THEN TRUE
    ELSE IF a[i] < b[i] THEN TRUE
    ELSE IF b[i] < a[i] THEN FALSE
    ELSE TupleLessFrom(a, b, i + 1)

TupleLess(a, b) == TupleLessFrom(a, b, 1)

\* sorted(s, key=..., reverse=True): keys[i] is the key tuple of s[i]. The
\* sort is stable: elements with equal keys keep their order, so an element
\* goes before the first element with a smaller key. The lists sorted are
\* lists of positions of s.
RECURSIVE InsertPosition(_, _, _, _)
InsertPosition(order, keys, x, i) ==
    IF i > Len(order) THEN Append(order, x)
    ELSE IF TupleLess(keys[order[i]], keys[x])
         THEN SubSeq(order, 1, i - 1) \o <<x>> \o SubSeq(order, i, Len(order))
    ELSE InsertPosition(order, keys, x, i + 1)

RECURSIVE SortedOrder(_, _, _)
SortedOrder(keys, x, order) ==
    IF x > Len(keys) THEN order
    ELSE SortedOrder(keys, x + 1, InsertPosition(order, keys, x, 1))

SortedReverse(s, keys) ==
    LET order == SortedOrder(keys, 1, <<>>)
    IN  [p \in DOMAIN s |-> s[order[p]]]

(***************************************************************************)
(* num_conv and Card.                                                      *)
(***************************************************************************)
num_conv(number, plural) ==
    LET plural_s == IF plural THEN "s" ELSE ""
    IN  IF number = 1 \/ number = 14 THEN "Ace" \o plural_s
        ELSE IF number = 11 THEN "Jack" \o plural_s
        ELSE IF number = 12 THEN "Queen" \o plural_s
        ELSE IF number = 13 THEN "King" \o plural_s
        ELSE ToString(number) \o plural_s

Card(number, suit) ==
    [number |-> number, suit |-> suit,
     points |-> IF number # AceNumber THEN number ELSE AcePoints]

\* Card.__str__, tabulated for the cards of the 52-card deck
CardStr ==
    [number \in 1..13 |->
        [suit \in Range(Suits) |-> num_conv(number, FALSE) \o " of " \o suit \o "s"]]

Str(card) == CardStr[card.number][card.suit]

StrList(s) == {Str(s[i]) : i \in DOMAIN s}

NoKickers == [none |-> TRUE, list |-> <<>>]
Kickers(list) == [none |-> FALSE, list |-> list]

PokerHand(desc, score, hand_cards, kickers, sub_hands) ==
    [description |-> desc, score |-> score, hand_cards |-> hand_cards,
     kickers |-> kickers, sub_hands |-> sub_hands]

(***************************************************************************)
(* order_hands.  The hands are handled through their positions in          *)
(* hand_list, so that the position of the winner is known; winning_pos is  *)
(* the position (1-based) of the object returned as winning_hand.          *)
(***************************************************************************)
\* sort_term: the points of the kickers, as a tuple
sort_term(hand) == [i \in DOMAIN hand.kickers.list |-> hand.kickers.list[i].points]

OrderResult(hand_list, pos, kicker_index, exc) ==
    [winning_pos |-> pos, kicker_index |-> kicker_index, raised |-> exc,
     winning_hand |-> IF pos = 0 THEN PokerHand("", <<0, <<0>>>>, <<>>, NoKickers, <<>>)
                      ELSE hand_list[pos]]

\* faulty variant of determining_kicker: the index is returned 0-based
RECURSIVE determining_kicker_zero_based(_, _, _)
determining_kicker_zero_based(first, second, card_index) ==
    IF card_index >= Len(first) THEN <<-1, "">>
    ELSE IF card_index >= Len(second) THEN <<-1, "IndexError">>
    ELSE IF second[card_index + 1].points # first[card_index + 1].points
         THEN <<card_index, "">>
    ELSE determining_kicker_zero_based(first, second, card_index + 1)

\* the loop of sort_by_high_cards over the kickers of the first hand, from
\* card_index (0-based) on: <<determining_kicker_index, exception>>
RECURSIVE determining_kicker(_, _, _)
determining_kicker(first, second, card_index) ==
    IF card_index >= Len(first) THEN <<-1, "">>
    ELSE IF card_index >= Len(second) THEN <<-1, "IndexError">>
    ELSE IF second[card_index + 1].points # first[card_index + 1].points
         THEN <<card_index + 1, "">>
    ELSE determining_kicker(first, second, card_index + 1)

\* faulty variant of sort_by_high_cards: the hands are left unsorted
sort_by_high_cards_unsorted(hand_list, hands_to_sort) ==
    IF \E i \in DOMAIN hands_to_sort : hand_list[hands_to_sort[i]].kickers.none
    THEN <<hands_to_sort, -1, "TypeError">>
    ELSE LET det == determining_kicker(hand_list[hands_to_sort[1]].kickers.list,
                                       hand_list[hands_to_sort[2]].kickers.list, 0)
         IN  <<hands_to_sort, det[1], det[2]>>

\* sort_by_high_cards: <<kickers_sorted, determining_kicker_index, exception>>
sort_by_high_cards(hand_list, hands_to_sort) ==
    IF \E i \in DOMAIN hands_to_sort : hand_list[hands_to_sort[i]].kickers.none
    THEN <<hands_to_sort, -1, "TypeError">>
    ELSE LET keys == [i \in DOMAIN hands_to_sort |-> sort_term(hand_list[hands_to_sort[i]])]
             kickers_sorted == SortedReverse(hands_to_sort, keys)
             det == determining_kicker(hand_list[kickers_sorted[1]].kickers.list,
                                       hand_list[kickers_sorted[2]].kickers.list, 0)
         IN  <<kickers_sorted, det[1], det[2]>>

\* filter(lambda x: (a, b), ...): the lambda returns a two-element tuple,
\* which is true whatever a and b are
TupleTruth(a, b) == TRUE

\* lines 87-88: the positions of the hands with the highest primary score
highest_hands_of(hand_list) ==
    LET all == [i \in DOMAIN hand_list |-> i]
        sorted_hands == SortedReverse(all, [i \in DOMAIN all |-> <<hand_list[i].score[1]>>])
    IN  SelectSeq(sorted_hands,
                  LAMBDA x : hand_list[x].score[1] = hand_list[sorted_hands[1]].score[1])

\* faulty variant of sort_by_secondary: the sort without reverse=True
sort_by_secondary_ascending(hand_list, highest_hands) ==
    Reversed(SortedReverse(highest_hands,
                 [i \in DOMAIN highest_hands |-> hand_list[highest_hands[i]].score[2]]))

\* lines 91 and 102: the sort by the secondary score, a tuple or an int
sort_by_secondary(hand_list, highest_hands) ==
    SortedReverse(highest_hands,
                  [i \in DOMAIN highest_hands |-> hand_list[highest_hands[i]].score[2]])

\* lines 97-99 and 107: the hands handed to sort_by_high_cards
filtered_hands_of(hand_list, sorted_high_hands) ==
    LET secondary(i) == hand_list[i].score[2]
        top == sorted_high_hands[1]
    IN  IF Len(secondary(top)) = 2
        THEN SelectSeq(sorted_high_hands,
                       LAMBDA x : TupleTruth(secondary(x)[1] = secondary(top)[1],
                                             secondary(x)[2] = secondary(top)[2]))
        ELSE SelectSeq(sorted_high_hands, LAMBDA x : secondary(x) = secondary(top))

order_hands(hand_list) ==
    IF Len(hand_list) = 0 THEN OrderResult(hand_list, 0, -2, "IndexError")
    ELSE
    LET sorted_high_hands == sort_by_secondary(hand_list, highest_hands_of(hand_list))
        top == sorted_high_hands[1]
        tied == /\ Len(sorted_high_hands) > 1
                /\ hand_list[top].score[2] = hand_list[sorted_high_hands[2]].score[2]
        by_kickers == sort_by_high_cards(hand_list,
                                         filtered_hands_of(hand_list, sorted_high_hands))
    IN  IF ~tied THEN OrderResult(hand_list, top, -2, "")
        ELSE IF by_kickers[3] # "" THEN OrderResult(hand_list, 0, -2, by_kickers[3])
        ELSE OrderResult(hand_list, by_kickers[1][1], by_kickers[2], "")

(***************************************************************************)
(* HandOfCards.analyse_poker_hand.  cards is self.cards: the cards of the  *)
(* hand, sorted by points, highest first.  The cards of a hand are         *)
(* distinct, so that a card has one match in a list compared by str().     *)
(***************************************************************************)
\* the list s without the cards whose str() is in strs
WithoutStrs(s, strs) == SelectSeq(s, LAMBDA x : Str(x) \notin strs)

\* faulty variant of same_number_kickers: the cards of the hand are not removed
same_number_kickers_all_cards(cards, hand_cards) ==
    SortedReverse(cards, [i \in DOMAIN cards |-> <<cards[i].number>>])

\* kickers of a same-number hand: sorted(temp_kickers, key=number, reverse=True)
same_number_kickers(cards, hand_cards) ==
    LET temp_kickers == WithoutStrs(cards, StrList(hand_cards))
    IN  SortedReverse(temp_kickers, [i \in DOMAIN temp_kickers |-> <<temp_kickers[i].number>>])

same_number_hand(card, hand_cards, kickers) ==
    LET n == Len(hand_cards)
        hand_desc == IF n = 4 THEN "Four of a kind, " \o num_conv(card.number, TRUE)
                     ELSE IF n = 3 THEN "Three of a kind, " \o num_conv(card.number, TRUE)
                     ELSE IF n = 2 THEN "Pair, " \o num_conv(card.number, TRUE)
                     ELSE num_conv(card.number, FALSE) \o " high"
        score == IF n = 4 THEN <<8, <<card.points>>>>
                 ELSE IF n = 3 THEN <<4, <<card.points>>>>
                 ELSE IF n = 2 THEN <<2, <<card.points>>>>
                 ELSE <<1, <<card.points>>>>
    IN  PokerHand(hand_desc, score, hand_cards, Kickers(kickers), <<>>)

\* the loop of analyse_same_number_hands from the card at position i on;
\* acc = [candidates, raised]
RECURSIVE same_number_loop(_, _, _, _)
same_number_loop(cards, i, uncounted_cards, acc) ==
    IF i > Len(cards) \/ acc.raised # "" THEN acc
    ELSE
    LET card == cards[i]
    IN  IF Str(card) \notin StrList(uncounted_cards)
        THEN same_number_loop(cards, i + 1, uncounted_cards, acc)
        ELSE
        LET popped == Tail(uncounted_cards)
            \* popped from the highest index down, appended in that order
            taken == Reversed(SelectSeq(popped, LAMBDA x : x.number = card.number))
            hand_cards == <<card>> \o taken
            rest == SelectSeq(popped, LAMBDA x : x.number # card.number)
            kickers == same_number_kickers(cards, hand_cards)
        IN  IF Len(hand_cards) >= 5
            THEN [acc EXCEPT !.raised = "ValueError"]
            ELSE same_number_loop(cards, i + 1, rest,
                    [acc EXCEPT !.candidates =
                        Append(@, same_number_hand(card, hand_cards, kickers))])

analyse_same_number_hands(cards) ==
    same_number_loop(cards, 1, cards, [candidates |-> <<>>, raised |-> ""])

\* faulty variant of analyse_flush: the flag is set by the last card alone
analyse_flush_last_card(cards) ==
    LET suit_comparison == cards[1].suit
        flush == cards[Len(cards)].suit = suit_comparison
    IN  IF flush
        THEN <<PokerHand("Flush, " \o suit_comparison \o "s", <<6, <<cards[1].points>>>>,
                         cards, Kickers(cards), <<>>)>>
        ELSE <<>>

analyse_flush(cards) ==
    LET suit_comparison == cards[1].suit
        flush == \A i \in DOMAIN cards : cards[i].suit = suit_comparison
    IN  IF flush
        THEN <<PokerHand("Flush, " \o suit_comparison \o "s", <<6, <<cards[1].points>>>>,
                         cards, Kickers(cards), <<>>)>>
        ELSE <<>>

\* the loop of check_straight over number_list after pop(0)
RECURSIVE check_straight_loop(_, _, _, _)
check_straight_loop(number_list, i, straight_compare, is_straight) ==
    IF i > Len(number_list) THEN is_straight
    ELSE IF number_list[i] = straight_compare - 1
         THEN check_straight_loop(number_list, i + 1, number_list[i], is_straight)
         ELSE check_straight_loop(number_list, i + 1, straight_compare, FALSE)

check_straight(number_list) ==
    check_straight_loop(Tail(number_list), 1, Head(number_list), TRUE)

\* faulty variant of analyse_straight: the wheel is scored by its highest card
analyse_straight_wheel_high(cards) ==
    LET points_list == [i \in DOMAIN cards |-> cards[i].points]
        numbers == [i \in DOMAIN cards |-> cards[i].number]
        straight_to_check == SortedReverse(numbers, [i \in DOMAIN numbers |-> <<numbers[i]>>])
        first_try == check_straight(points_list)
        retry == ~first_try /\ cards[1].points = 14
        use_ace_as_1 == retry /\ check_straight(straight_to_check)
        straight == first_try \/ use_ace_as_1
    IN  IF ~straight THEN <<>>
        ELSE IF use_ace_as_1
        THEN <<PokerHand("Straight, 1 to 5", <<5, <<cards[1].points>>>>, cards, NoKickers, <<>>)>>
        ELSE <<PokerHand("Straight, " \o num_conv(cards[Len(cards)].points, FALSE)
                           \o " to " \o num_conv(cards[1].points, FALSE),
                         <<5, <<cards[1].points>>>>, cards, NoKickers, <<>>)>>

analyse_straight(cards) ==
    LET points_list == [i \in DOMAIN cards |-> cards[i].points]
        numbers == [i \in DOMAIN cards |-> cards[i].number]
        straight_to_check == SortedReverse(numbers, [i \in DOMAIN numbers |-> <<numbers[i]>>])
        first_try == check_straight(points_list)
        retry == ~first_try /\ cards[1].points = 14
        use_ace_as_1 == retry /\ check_straight(straight_to_check)
        straight == first_try \/ use_ace_as_1
    IN  IF ~straight THEN <<>>
        ELSE IF use_ace_as_1
        THEN <<PokerHand("Straight, 1 to 5", <<5, <<5>>>>, cards, NoKickers, <<>>)>>
        ELSE <<PokerHand("Straight, " \o num_conv(cards[Len(cards)].points, FALSE)
                           \o " to " \o num_conv(cards[1].points, FALSE),
                         <<5, <<cards[1].points>>>>, cards, NoKickers, <<>>)>>

\* description.split(','): the two parts of a description with one comma
SplitParts ==
    {<<"Straight", " 1 to 5">>} \cup
    {<<"Straight", " " \o num_conv(a, FALSE) \o " to " \o num_conv(b, FALSE)>> :
        a \in 2..14, b \in 2..14}

split_comma(description) ==
    CHOOSE parts \in SplitParts : parts[1] \o "," \o parts[2] = description

analyse_combination_hands(cards, hand_candidates) ==
    LET with_primary(n) == SelectSeq(hand_candidates, LAMBDA x : x.score[1] = n)
        pairs_found == with_primary(2)
        threes_of_kind == with_primary(4)
        straights == with_primary(5)
        flushes == with_primary(6)
    IN  IF Len(pairs_found) = 2
        THEN LET pairs == SortedReverse(pairs_found,
                              [i \in DOMAIN pairs_found |-> pairs_found[i].score[2]])
                 hand_cards == pairs[1].hand_cards \o pairs[2].hand_cards
                 others == WithoutStrs(cards, StrList(hand_cards))
                 kickers == IF Len(others) = 0 THEN <<>> ELSE <<others[Len(others)]>>
             IN  <<PokerHand("Two pairs, " \o num_conv(pairs[1].score[2][1], TRUE)
                               \o " and " \o num_conv(pairs[2].score[2][1], TRUE),
                             <<3, <<pairs[1].score[2][1], pairs[2].score[2][1]>>>>,
                             hand_cards, Kickers(kickers),
                             <<pairs[1].description, pairs[2].description>>)>>
        ELSE IF Len(threes_of_kind) = 1 /\ Len(pairs_found) = 1
        THEN <<PokerHand("Full house, " \o num_conv(threes_of_kind[1].score[2][1], TRUE)
                           \o " and " \o num_conv(pairs_found[1].score[2][1], TRUE),
                         <<7, <<threes_of_kind[1].score[2][1], pairs_found[1].score[2][1]>>>>,
                         threes_of_kind[1].hand_cards \o pairs_found[1].hand_cards,
                         NoKickers,
                         <<threes_of_kind[1].description, pairs_found[1].description>>)>>
        ELSE IF Len(straights) = 1 /\ Len(flushes) = 1
        THEN LET straight_desc_parts == split_comma(straights[1].description)
                 hand_desc == IF straights[1].score[2][1] = 14 THEN "Royal Flush"
                              ELSE straight_desc_parts[1] \o " Flush,"
                                       \o straight_desc_parts[2]
             IN  <<PokerHand(hand_desc, <<9, straights[1].score[2]>>, cards, NoKickers,
                             <<flushes[1].description, straights[1].description>>)>>
        ELSE <<>>

\* [poker_hand, raised]: the hand returned, or the exception raised
analyse_poker_hand(cards) ==
    LET same == analyse_same_number_hands(cards)
        first3 == same.candidates \o analyse_flush(cards) \o analyse_straight(cards)
        hand_candidates == first3 \o analyse_combination_hands(cards, first3)
        ordered == order_hands(hand_candidates)
    IN  IF same.raised # ""
        THEN [poker_hand |-> ordered.winning_hand, raised |-> same.raised]
        ELSE [poker_hand |-> ordered.winning_hand, raised |-> ordered.raised]

\* HandOfCards.__init__ with the cards picked: self.cards.sort(points, reverse)
sorted_cards(picked) == SortedReverse(picked, [i \in DOMAIN picked |-> <<picked[i].points>>])

HandOfCards(picked) ==
    LET cards == sorted_cards(picked)
        analysed == analyse_poker_hand(cards)
    IN  [cards |-> cards, poker_hand |-> analysed.poker_hand, raised |-> analysed.raised]

(***************************************************************************)
(* str_hand_comparison.  Hand indices are 0-based as in the code; the      *)
(* hand with index h is poker_hands[h + 1].                                *)
(***************************************************************************)
\* kicker_points after popping, for each kicker of the best hand from
\* position i on, the first equal element of kicker_points
RECURSIVE pop_best_kickers(_, _, _)
pop_best_kickers(kicker_points, best_kickers, i) ==
    IF i > Len(best_kickers) THEN kicker_points
    ELSE LET pts == best_kickers[i].points
         IN  IF \E k \in DOMAIN kicker_points : kicker_points[k] = pts
             THEN pop_best_kickers(
                      RemoveAt(kicker_points,
                               CHOOSE k \in DOMAIN kicker_points :
                                   /\ kicker_points[k] = pts
                                   /\ \A j \in 1..(k - 1) : kicker_points[j] # pts),
                      best_kickers, i + 1)
             ELSE pop_best_kickers(kicker_points, best_kickers, i + 1)

\* len(kicker_points) == 0 after the popping loop
kickers_covered(poker_hand, best) ==
    Len(pop_best_kickers(sort_term(poker_hand), best.kickers.list, 1)) = 0

\* the hand indices 0 .. len(poker_hands) - 1 in increasing order (enumerate)
hand_indices(hands) == [i \in DOMAIN hands |-> i - 1]

\* the last hand_index assigned to best_index by the loop of the
\* one-winner branch (lines 158-170), -1 if none is assigned
one_winner_index(hands, best, kicker_index) ==
    LET hits == SelectSeq(hand_indices(hands), LAMBDA h :
                    /\ hands[h + 1].description = best.description
                    /\ (kicker_index > -1 => kickers_covered(hands[h + 1], best)))
    IN  IF Len(hits) = 0 THEN -1 ELSE hits[Len(hits)]

\* best_indices of the draw branch (lines 174-183)
draw_indices(hands, best) ==
    SelectSeq(hand_indices(hands), LAMBDA h :
        /\ hands[h + 1].description = best.description
        /\ kickers_covered(hands[h + 1], best))

\* best_indices of the kicker branch (lines 192-194)
same_description_indices(hands, best) ==
    SelectSeq(hand_indices(hands), LAMBDA h : hands[h + 1].description = best.description)

IsBestIndex(hand_index, the_best_index) == hand_index = the_best_index

\* the section of one hand (lines 202-233): [marker, lines, kicker_det]
hand_section(poker_hand, hand_index, the_best_index, the_best_indices, kd) ==
    LET in_best == \E k \in DOMAIN the_best_indices : the_best_indices[k] = hand_index
        marker == IF IsBestIndex(hand_index, the_best_index) THEN "Winning hand"
                  ELSE IF in_best /\ kd = -1 THEN "Hand included in the winning draw"
                  ELSE ""
        kick == poker_hand.kickers.list
        leading(n) == SubSeq(kick, 1, IF n > Len(kick) THEN Len(kick) ELSE n)
        main_lines == [i \in DOMAIN poker_hand.hand_cards |->
                         " - " \o Str(poker_hand.hand_cards[i]) \o
                         (IF in_best /\ kd > -1
                             /\ Str(poker_hand.hand_cards[i]) \in StrList(leading(kd))
                          THEN " (kicker)" ELSE "")]
        printed == StrList(poker_hand.hand_cards)
        kd2 == IF in_best /\ kd > -2 /\ kd = -1 THEN Len(kick) + 1 ELSE kd
        tagged == IF in_best /\ kd > -2
                  THEN SelectSeq(leading(kd2), LAMBDA c : Str(c) \notin printed)
                  ELSE <<>>
        printed2 == printed \cup StrList(tagged)
        unused == SelectSeq(kick, LAMBDA c : Str(c) \notin printed2)
    IN  [marker |-> marker,
         lines |-> main_lines
                   \o [i \in DOMAIN tagged |-> " - " \o Str(tagged[i]) \o " (kicker)"]
                   \o [i \in DOMAIN unused |-> "(- " \o Str(unused[i]) \o ")"],
         kicker_det |-> kd2]

\* the loop over the hands from hand_index on; kd is the local kicker_det,
\* which the section of a hand may change for the hands after it
RECURSIVE hand_sections(_, _, _, _, _)
hand_sections(hands, hand_index, the_best_index, the_best_indices, kd) ==
    IF hand_index >= Len(hands) THEN <<>>
    ELSE LET sec == hand_section(hands[hand_index + 1], hand_index,
                                 the_best_index, the_best_indices, kd)
         IN  <<[marker |-> sec.marker, lines |-> sec.lines]>>
             \o hand_sections(hands, hand_index + 1, the_best_index,
                              the_best_indices, sec.kicker_det)

NoStatement == [kind |-> "", hands |-> <<>>]

\* the whole call: what it leaves in the variables of the model
str_hand_comparison(hands) ==
    LET ordered == order_hands(hands)
        best == ordered.winning_hand
        kd == ordered.kicker_index
        idx == IF kd # -1 THEN one_winner_index(hands, best, kd) ELSE -1
        indices == IF kd = -1 THEN draw_indices(hands, best)
                   ELSE IF kd > -1 THEN same_description_indices(hands, best)
                   ELSE <<>>
        exc == IF ordered.raised # "" THEN ordered.raised
               ELSE IF kd # -1 /\ idx = -1 THEN "TypeError"
               ELSE IF kd # -2 /\ Len(indices) < 2 THEN "ValueError"
               ELSE ""
    IN  [best_pos |-> ordered.winning_pos,
         kicker_det |-> kd,
         best_index |-> IF ordered.raised # "" THEN -1 ELSE idx,
         best_indices |-> IF ordered.raised # "" THEN <<>> ELSE indices,
         win_statement |->
             IF exc # "" THEN NoStatement
             ELSE IF kd # -1 THEN [kind |-> "wins", hands |-> <<idx + 1>>]
             ELSE [kind |-> "draw", hands |-> [k \in DOMAIN indices |-> indices[k] + 1]],
         report |-> IF exc # "" THEN <<>> ELSE hand_sections(hands, 0, idx, indices, kd),
         raised |-> exc]

(***************************************************************************)
(* Decks.  A deck of the model is a list of distinct cards of the 52-card  *)
(* deck: Deck.cards after some cards have been picked.                     *)
(***************************************************************************)
\* the cards with the given numbers in the given suits, built in the order of
\* Deck.__init__: for number ... for suit ...
RECURSIVE deck_of(_, _)
deck_of(numbers, suits) ==
    IF Len(numbers) = 0 THEN <<>>
    ELSE [s \in DOMAIN suits |-> Card(Head(numbers), suits[s])]
         \o deck_of(Tail(numbers), suits)

EvalNumbers == [i \in 1..EvalLow |-> i] \o [i \in 1..EvalHigh |-> 13 - EvalHigh + i]

EvalDeck ==
    deck_of(EvalNumbers, SubSeq(Suits, 1, 2))
    \o deck_of([i \in 1..EvalFull |-> i], SubSeq(Suits, 3, 4))

\* two suits without a straight; the club flushes; a rank in four suits with
\* single kickers; two ranks in four suits; the straights of two suits
RankCards == <<
    <<Card(1, "spade"), Card(7, "spade"), Card(6, "spade"), Card(4, "spade"),
      Card(3, "spade"), Card(2, "spade"), Card(1, "heart"), Card(7, "heart"),
      Card(6, "heart"), Card(4, "heart"), Card(3, "heart"), Card(2, "heart")>>,
    <<Card(13, "club"), Card(12, "club"), Card(11, "club"), Card(9, "club"),
      Card(8, "club"), Card(7, "club"), Card(5, "club"), Card(4, "club"),
      Card(3, "club"), Card(2, "club"), Card(1, "heart"), Card(6, "heart")>>,
    <<Card(13, "spade"), Card(13, "heart"), Card(13, "diamond"), Card(13, "club"),
      Card(1, "spade"), Card(3, "heart"), Card(2, "diamond"), Card(12, "club"),
      Card(11, "spade"), Card(10, "heart"), Card(9, "diamond"), Card(8, "club")>>,
    <<Card(5, "spade"), Card(5, "heart"), Card(5, "diamond"), Card(5, "club"),
      Card(4, "spade"), Card(4, "heart"), Card(4, "diamond"), Card(4, "club"),
      Card(1, "spade"), Card(2, "heart"), Card(6, "diamond"), Card(3, "club")>>,
    <<Card(2, "spade"), Card(3, "spade"), Card(4, "spade"), Card(5, "spade"),
      Card(6, "spade"), Card(2, "heart"), Card(3, "heart"), Card(4, "heart"),
      Card(5, "heart"), Card(6, "heart"), Card(1, "spade"), Card(7, "diamond")>> >>

RankDecks ==
    {SubSeq(RankCards[d], 1, IF RankDeckSize > Len(RankCards[d])
                             THEN Len(RankCards[d]) ELSE RankDeckSize) :
        d \in DOMAIN RankCards}

\* hands given as test_cards, as simple_tests does: three two-pair hands of
\* which two tie, flushes of one suit and of two suits, straights, high cards
TestCards == <<
    <<Card(5, "spade"), Card(5, "heart"), Card(4, "spade"), Card(4, "heart"), Card(2, "spade")>>,
    <<Card(5, "diamond"), Card(5, "club"), Card(4, "diamond"), Card(4, "club"), Card(2, "heart")>>,
    <<Card(3, "spade"), Card(3, "heart"), Card(2, "diamond"), Card(2, "club"), Card(6, "spade")>>,
    <<Card(13, "club"), Card(12, "club"), Card(11, "club"), Card(7, "club"), Card(6, "club")>>,
    <<Card(1, "club"), Card(10, "club"), Card(9, "club"), Card(8, "club"), Card(3, "club")>>,
    <<Card(1, "heart"), Card(10, "heart"), Card(9, "heart"), Card(8, "heart"), Card(4, "heart")>>,
    <<Card(1, "spade"), Card(13, "spade"), Card(11, "heart"), Card(7, "heart"), Card(3, "diamond")>>,
    <<Card(1, "diamond"), Card(13, "diamond"), Card(11, "spade"), Card(7, "spade"), Card(3, "heart")>>,
    <<Card(1, "club"), Card(13, "heart"), Card(11, "diamond"), Card(7, "diamond"), Card(3, "spade")>> >>

\* Deck.__init__ before the shuffle
FullDeck == deck_of([i \in 1..13 |-> i], Suits)

(***************************************************************************)
(* The state machine.                                                      *)
(***************************************************************************)
InitCommon ==
    /\ drawn = <<>>
    /\ dealt = <<>>
    /\ poker_hands = <<>>
    /\ pc = "draw"
    /\ best_pos = 0
    /\ kicker_det = -2
    /\ best_index = -1
    /\ best_indices = <<>>
    /\ win_statement = NoStatement
    /\ report = <<>>
    /\ raised = ""

\* one hand from the evaluation deck
InitEval ==
    /\ deck = EvalDeck
    /\ hand_amount = 1
    /\ InitCommon

\* hands from one of the ranking decks
InitRank ==
    /\ deck \in RankDecks
    /\ hand_amount \in 1..MaxHands
    /\ InitCommon

\* hands given as test_cards, out of a whole deck
InitTest ==
    /\ deck = FullDeck
    /\ hand_amount \in 1..MaxHands
    /\ InitCommon

\* the constructor from the sorting on: what it adds to the lists, or raises
Constructed(hand) ==
    /\ raised' = hand.raised
    /\ IF hand.raised # ""
       THEN pc' = "draw_failed" /\ UNCHANGED <<dealt, poker_hands>>
       ELSE /\ pc' = "draw"
            /\ dealt' = Append(dealt, hand.cards)
            /\ poker_hands' = Append(poker_hands, hand.poker_hand)

\* HandOfCards(deck_to_use=self) inside get_list_of_poker_hands: five
\* pick_card calls, the sort and the analysis. The deck was shuffled, so the
\* cards picked are any five of the deck; they come in the order of the list.
\* With fewer than five cards left, pick_card empties the deck and raises.
DrawHand ==
    /\ pc = "draw"
    /\ Len(poker_hands) < hand_amount
    /\ IF Len(deck) < HandSize
       THEN /\ deck' = <<>>
            /\ drawn' = drawn \o Reversed(deck)
            /\ raised' = "IndexError"
            /\ pc' = "draw_failed"
            /\ UNCHANGED <<dealt, poker_hands>>
       ELSE \E i1 \in 1..Len(deck) : \E i2 \in (i1 + 1)..Len(deck) :
            \E i3 \in (i2 + 1)..Len(deck) : \E i4 \in (i3 + 1)..Len(deck) :
            \E i5 \in (i4 + 1)..Len(deck) :
            \E hand \in {HandOfCards(<<deck[i1], deck[i2], deck[i3], deck[i4], deck[i5]>>)} :
                /\ deck' = SelectSeq(deck, LAMBDA c : c \notin Range(hand.cards))
                /\ drawn' = drawn \o <<deck[i1], deck[i2], deck[i3], deck[i4], deck[i5]>>
                /\ Constructed(hand)
    /\ UNCHANGED <<hand_amount, best_pos, kicker_det, best_index, best_indices,
                   win_statement, report>>

\* HandOfCards(test_cards=...): the cards are given; they are cards that are
\* still in the deck, and leave it, so that the hands share no card.
TestHand ==
    /\ pc = "draw"
    /\ Len(poker_hands) < hand_amount
    /\ \E t \in DOMAIN TestCards :
        /\ Range(TestCards[t]) \subseteq Range(deck)
        /\ \E hand \in {HandOfCards(TestCards[t])} :
            /\ deck' = SelectSeq(deck, LAMBDA c : c \notin Range(hand.cards))
            /\ Constructed(hand)
    /\ UNCHANGED <<drawn, hand_amount, best_pos, kicker_det, best_index, best_indices,
                   win_statement, report>>

\* str_hand_comparison(poker_hands) on the list get_list_of_poker_hands returned
StrHandComparison ==
    /\ pc = "draw"
    /\ Len(poker_hands) = hand_amount
    /\ \E out \in {str_hand_comparison(poker_hands)} :
           /\ best_pos' = out.best_pos
           /\ kicker_det' = out.kicker_det
           /\ best_index' = out.best_index
           /\ best_indices' = out.best_indices
           /\ win_statement' = out.win_statement
           /\ report' = out.report
           /\ raised' = out.raised
           /\ pc' = IF out.raised # "" THEN "report_failed" ELSE "done"
    /\ UNCHANGED <<deck, drawn, hand_amount, dealt, poker_hands>>

Next == DrawHand \/ StrHandComparison

NextTest == TestHand \/ StrHandComparison

SpecEval == InitEval /\ [][Next]_vars

SpecRank == InitRank /\ [][Next]_vars

SpecTest == InitTest /\ [][NextTest]_vars

(***************************************************************************)
(* The whole deck, card by card.  The top of the deck is the end of the    *)
(* list: pick_card pops the last element.                                  *)
(***************************************************************************)
\* random.shuffle: of the 52! orders the model takes the orders that put the
\* card at position (i * m) mod 53 of the built deck at position i (53 is
\* prime, so each m in 1..52 gives a permutation)
Shuffled(m) == [i \in DOMAIN FullDeck |-> FullDeck[(i * m) % (Len(FullDeck) + 1)]]

ShuffledDecks == {Shuffled(m) : m \in 1..MaxShuffles}

\* faulty variant of pick_card: the top card is returned but stays in the deck
pick_card_keep_top(cards) ==
    IF Len(cards) = 0
    THEN [cards |-> cards, returned |-> <<>>, raised |-> "IndexError"]
    ELSE [cards |-> cards, returned |-> <<cards[Len(cards)]>>, raised |-> ""]

\* Deck.pick_card on self.cards: [cards, returned, raised]; returned is the
\* list of the card returned, empty when the call raises
pick_card(cards) ==
    IF Len(cards) = 0
    THEN [cards |-> cards, returned |-> <<>>, raised |-> "IndexError"]
    ELSE [cards |-> SubSeq(cards, 1, Len(cards) - 1),
          returned |-> <<cards[Len(cards)]>>, raised |-> ""]

\* the loop of HandOfCards.__init__: card_amount calls of pick_card, stopped
\* by the first that raises; got is the list of the cards appended so far
RECURSIVE pick_cards(_, _, _)
pick_cards(cards, card_amount, got) ==
    IF card_amount = 0 THEN [cards |-> cards, returned |-> got, raised |-> ""]
    ELSE LET one == pick_card(cards)
         IN  IF one.raised # ""
             THEN [cards |-> one.cards, returned |-> got, raised |-> one.raised]
             ELSE pick_cards(one.cards, card_amount - 1, got \o one.returned)

\* a new Deck, and hands to build from it
InitDeck ==
    /\ deck \in ShuffledDecks
    /\ hand_amount = DeckHands
    /\ InitCommon

\* a call of pick_card by any caller of the deck
PickCard ==
    /\ \E out \in {pick_card(deck)} :
           /\ deck' = out.cards
           /\ drawn' = drawn \o out.returned
           /\ raised' = out.raised
    /\ UNCHANGED <<hand_amount, dealt, poker_hands, pc, best_pos, kicker_det,
                   best_index, best_indices, win_statement, report>>

\* HandOfCards(deck_to_use=self) inside get_list_of_poker_hands: the five
\* cards on top of the deck, the sort and the analysis
DrawTopHand ==
    /\ pc = "draw"
    /\ Len(poker_hands) < hand_amount
    /\ \E out \in {pick_cards(deck, HandSize, <<>>)} :
           /\ deck' = out.cards
           /\ drawn' = drawn \o out.returned
           /\ IF out.raised # ""
              THEN /\ raised' = out.raised
                   /\ pc' = "draw_failed"
                   /\ UNCHANGED <<dealt, poker_hands>>
              ELSE \E hand \in {HandOfCards(out.returned)} : Constructed(hand)
    /\ UNCHANGED <<hand_amount, best_pos, kicker_det, best_index, best_indices,
                   win_statement, report>>

NextDeck == PickCard \/ DrawTopHand

SpecDeck == InitDeck /\ [][NextDeck]_vars

(***************************************************************************)
(* Properties.  The rules of poker are stated here from the cards alone,   *)
(* without the operators of the model above.                               *)
(***************************************************************************)
\* str_hand_comparison has run on poker_hands
Compared == pc \in {"done", "report_failed"}

\* order_hands returned inside str_hand_comparison: best_pos is its winner
Ordered == Compared /\ best_pos # 0

CountOfNumber(cards, n) == Cardinality({i \in DOMAIN cards : cards[i].number = n})

OneSuit(cards) == \A i \in DOMAIN cards : cards[i].suit = cards[1].suit

NumbersOf(cards) == {cards[i].number : i \in DOMAIN cards}

IsWheel(cards) == NumbersOf(cards) = {1, 2, 3, 4, 5}

IsAceHighStraight(cards) == NumbersOf(cards) = {10, 11, 12, 13, 1}

IsStraight(cards) ==
    \/ IsWheel(cards)
    \/ IsAceHighStraight(cards)
    \/ \E low \in 2..9 : NumbersOf(cards) = low..(low + 4)

\* the numbers that occur exactly size times among the cards
GroupsOfSize(cards, size) == {n \in NumbersOf(cards) : CountOfNumber(cards, n) = size}

\* the category of five cards in the rules of poker, as its primary score
StandardCategory(cards) ==
    IF IsStraight(cards) /\ OneSuit(cards) THEN 9
    ELSE IF GroupsOfSize(cards, 4) # {} THEN 8
    ELSE IF GroupsOfSize(cards, 3) # {} /\ GroupsOfSize(cards, 2) # {} THEN 7
    ELSE IF OneSuit(cards) THEN 6
    ELSE IF IsStraight(cards) THEN 5
    ELSE IF GroupsOfSize(cards, 3) # {} THEN 4
    ELSE IF Cardinality(GroupsOfSize(cards, 2)) = 2 THEN 3
    ELSE IF Cardinality(GroupsOfSize(cards, 2)) = 1 THEN 2
    ELSE 1

\* score a is lower than score b: by the primary score, then the secondary
ScoreLess(a, b) == a[1] < b[1] \/ (a[1] = b[1] /\ TupleLess(a[2], b[2]))

\* the points of a list of cards
PointsOf(cards) == [i \in DOMAIN cards |-> cards[i].points]

\* first position (1-based) at which two lists of equal length differ, -1 if none
FirstDifference(a, b) ==
    IF \A i \in DOMAIN a : a[i] = b[i] THEN -1
    ELSE CHOOSE i \in DOMAIN a : a[i] # b[i] /\ \A j \in 1..(i - 1) : a[j] = b[j]

\* C1: the primary score of every evaluated hand is the category its five
\* cards have in the rules of poker (9 straight flush ... 1 high card).
C1_StandardCategory ==
    \A i \in DOMAIN poker_hands :
        poker_hands[i].score[1] = StandardCategory(dealt[i])

\* a full house has been evaluated as such
C1_Witness ==
    \E i \in DOMAIN poker_hands :
        StandardCategory(dealt[i]) = 7 /\ poker_hands[i].score[1] = 7

\* C2: when exactly one hand of the list has the highest (primary, secondary)
\* score, order_hands returns that hand and kicker index -2, wherever the
\* hand stands in the list.
C2_UniqueBestWins ==
    Compared =>
        \A i \in DOMAIN poker_hands :
            (\A j \in DOMAIN poker_hands \ {i} :
                ScoreLess(poker_hands[j].score, poker_hands[i].score))
            => (best_pos = i /\ kicker_det = -2)

\* the second of two hands is the only best one and wins
C2_Witness ==
    /\ Compared
    /\ Len(poker_hands) = 2
    /\ poker_hands[1].score[1] = poker_hands[2].score[1]
    /\ ScoreLess(poker_hands[1].score, poker_hands[2].score)
    /\ best_pos = 2
    /\ kicker_det = -2

\* C3: the winner returned by order_hands for two or more hands has the
\* highest primary score of the list and, among those, the highest
\* secondary score, also when the kickers were compared.
C3_WinnerHasBestScore ==
    (Ordered /\ Len(poker_hands) >= 2) =>
        \A j \in DOMAIN poker_hands :
            ~ScoreLess(poker_hands[best_pos].score, poker_hands[j].score)

\* the preconditions of C4: two hands, same score, kicker lists of one length
TwoTiedWithKickers ==
    /\ Compared
    /\ Len(poker_hands) = 2
    /\ poker_hands[1].score = poker_hands[2].score
    /\ ~poker_hands[1].kickers.none
    /\ ~poker_hands[2].kickers.none
    /\ Len(poker_hands[1].kickers.list) = Len(poker_hands[2].kickers.list)

FullyTied(a, b) ==
    /\ a.score = b.score
    /\ a.kickers.none = b.kickers.none
    /\ PointsOf(a.kickers.list) = PointsOf(b.kickers.list)

\* C5: when the two hands of a list are fully tied, order_hands returns
\* kicker index -1 and one of them as the winner, also for hands of a
\* category without kickers.
C5_TieSignal ==
    (Compared /\ Len(poker_hands) = 2 /\ FullyTied(poker_hands[1], poker_hands[2]))
        => (best_pos \in {1, 2} /\ kicker_det = -1)

\* the list holds each of the cards exactly once
HoldsEachOnce(list, cards) == Len(list) = Len(cards) /\ Range(list) = Range(cards)

\* C6 as stated: in every evaluated hand, of every category including flush,
\* hand_cards together with kickers (an absent kickers adds nothing) hold
\* each of the five cards exactly once.
C6_CardsOnce ==
    \A i \in DOMAIN poker_hands :
        HoldsEachOnce(poker_hands[i].hand_cards \o poker_hands[i].kickers.list, dealt[i])

\* C6 amended: in every evaluated hand that is not a flush, hand_cards
\* together with kickers hold each of the five cards exactly once; in a
\* flush, hand_cards and kickers each hold the five cards exactly once, so
\* that every card of a flush appears twice across the two lists.
C6_CardsOnceExceptFlush ==
    \A i \in DOMAIN poker_hands :
        IF poker_hands[i].score[1] = 6
        THEN /\ HoldsEachOnce(poker_hands[i].hand_cards, dealt[i])
             /\ ~poker_hands[i].kickers.none
             /\ HoldsEachOnce(poker_hands[i].kickers.list, dealt[i])
        ELSE HoldsEachOnce(poker_hands[i].hand_cards \o poker_hands[i].kickers.list,
                           dealt[i])

\* a flush has been evaluated: its five cards are its hand_cards and its kickers
C6_Witness ==
    \E i \in DOMAIN poker_hands :
        /\ poker_hands[i].score[1] = 6
        /\ Len(poker_hands[i].hand_cards) = 5
        /\ Len(poker_hands[i].kickers.list) = 5

\* C7: the kickers of every evaluated hand, when present, are in descending
\* order of points (ace 14), so that an ace among the kickers comes first.
C7_KickersDescending ==
    \A i \in DOMAIN poker_hands :
        \A k \in 1..(Len(poker_hands[i].kickers.list) - 1) :
            poker_hands[i].kickers.list[k].points
                >= poker_hands[i].kickers.list[k + 1].points

HasAce(cards) == AceNumber \in NumbersOf(cards)

\* C8: a wheel (ace, 2, 3, 4, 5) has secondary score 5 and primary score 5,
\* or 9 when of one suit, and is never a Royal Flush; a hand with an ace that
\* is neither a wheel nor 10-J-Q-K-A is not a straight; order_hands never
\* returns a wheel when the list holds another straight of the same primary
\* score, and returns the other straight of a list of two.
C8_WheelIsLowest ==
    /\ \A i \in DOMAIN poker_hands :
        /\ IsWheel(dealt[i]) =>
              /\ poker_hands[i].score = <<IF OneSuit(dealt[i]) THEN 9 ELSE 5, <<5>>>>
              /\ poker_hands[i].description # "Royal Flush"
        /\ (HasAce(dealt[i]) /\ ~IsWheel(dealt[i]) /\ ~IsAceHighStraight(dealt[i]))
              => poker_hands[i].score[1] \notin {5, 9}
    /\ Compared =>
          \A i \in DOMAIN poker_hands : \A j \in DOMAIN poker_hands :
              (/\ IsWheel(dealt[i])
               /\ ~IsWheel(dealt[j])
               /\ poker_hands[j].score[1] = poker_hands[i].score[1])
              => /\ best_pos # i
                 /\ Len(poker_hands) = 2 => (best_pos = j /\ kicker_det = -2)

\* a wheel stands first in a list of two straights and the other one wins
C8_Witness ==
    /\ Compared
    /\ Len(poker_hands) = 2
    /\ IsWheel(dealt[1])
    /\ poker_hands[1].score = <<5, <<5>>>>
    /\ poker_hands[2].score = <<5, <<6>>>>
    /\ best_pos = 2

\* two flushes that are not straights, with the same highest card
TwoFlushesSameTop ==
    /\ Compared
    /\ Len(poker_hands) = 2
    /\ poker_hands[1].score[1] = 6
    /\ poker_hands[2].score[1] = 6
    /\ dealt[1][1].points = dealt[2][1].points

\* C9: for two flushes with the same highest card, the kicker index is the
\* 1-based position of the first difference between the points of the five
\* cards of the two hands (highest first), the winner is the hand with the
\* higher card there, and the index is -1 exactly when there is no difference.
C9_FlushByCards ==
    TwoFlushesSameTop =>
        \E d \in {FirstDifference(PointsOf(dealt[1]), PointsOf(dealt[2]))} :
            /\ kicker_det = d
            /\ d = -1 => best_pos \in {1, 2}
            /\ d # -1 => /\ best_pos \in {1, 2}
                         /\ dealt[best_pos][d].points > dealt[3 - best_pos][d].points

\* the second flush wins by its fourth card
C9_Witness ==
    /\ TwoFlushesSameTop
    /\ kicker_det = 4
    /\ best_pos = 2
    /\ dealt[2][4].points > dealt[1][4].points

\* C10: when order_hands reports a single winner and str_hand_comparison
\* returns, the headline names the list position of the hand order_hands
\* returned, and that hand and no other is marked 'Winning hand'.
C10_HeadlineNamesWinner ==
    (pc = "done" /\ kicker_det # -1) =>
        /\ win_statement = [kind |-> "wins", hands |-> <<best_pos>>]
        /\ \A h \in DOMAIN report : (report[h].marker = "Winning hand") <=> (h = best_pos)

\* C11: when order_hands returns a result for the hands drawn from one deck,
\* str_hand_comparison does not raise its ValueError: on a draw or a kicker
\* decision it finds at least two matching hands.
C11_NoConsistencyError ==
    Ordered => raised # "ValueError"

\* the 52 cards as (rank, suit) pairs, and the pairs of a list of cards
AllCards == {<<n, s>> : n \in 1..13, s \in Range(Suits)}

Ids(list) == {<<list[i].number, list[i].suit>> : i \in DOMAIN list}

\* the cards returned and the cards left partition the 52 cards
DeckPartition ==
    /\ Len(drawn) + Len(deck) = 52
    /\ Cardinality(Ids(drawn)) = Len(drawn)
    /\ Cardinality(Ids(deck)) = Len(deck)
    /\ Ids(drawn) \cap Ids(deck) = {}
    /\ Ids(drawn) \cup Ids(deck) = AllCards

HandsShareNoCard ==
    \A i \in DOMAIN dealt : \A j \in DOMAIN dealt :
        i # j => Ids(dealt[i]) \cap Ids(dealt[j]) = {}

\* a step on a deck with cards returns cards not returned before and
\* removes exactly those; a step on the empty deck raises IndexError and
\* leaves the deck empty
PickStep ==
    IF Len(deck) = 0
    THEN deck' = <<>> /\ drawn' = drawn /\ raised' = "IndexError"
    ELSE \E n \in 1..HandSize :
            /\ Len(drawn') = Len(drawn) + n
            /\ SubSeq(drawn', 1, Len(drawn)) = drawn
            /\ Ids(SubSeq(drawn', Len(drawn) + 1, Len(drawn'))) \cap Ids(drawn) = {}
            /\ Len(deck') = Len(deck) - n
            /\ Ids(deck') = Ids(deck) \ Ids(SubSeq(drawn', Len(drawn) + 1, Len(drawn')))

\* C12: from a new deck, the cards returned by pick_card and the cards left
\* always partition the 52 cards, every call on a deck with cards returns a
\* card not returned before and removes exactly it, every call on the empty
\* deck raises IndexError and leaves it empty, and the hands built from the
\* deck share no card.
C12_DeckPartition ==
    [](DeckPartition /\ HandsShareNoCard) /\ [][PickStep]_vars

\* the deck has been emptied, two hands were built from it, and a call on
\* the empty deck has raised
C12_Witness ==
    /\ Len(deck) = 0
    /\ Len(drawn) = 52
    /\ Len(dealt) >= 2
    /\ raised = "IndexError"

\* the points of the cards of hand i outside its hand_cards, highest first:
\* dealt[i] is in descending order of points
KickerPointsDescending(i) ==
    PointsOf(SelectSeq(dealt[i], LAMBDA c : c \notin Range(poker_hands[i].hand_cards)))

\* two hands of one rank-group category with the same secondary score
TwoOfOneRankGroup ==
    /\ Compared
    /\ Len(poker_hands) = 2
    /\ poker_hands[1].score[1] \in {1, 2, 4, 8}
    /\ poker_hands[1].score = poker_hands[2].score

\* C13: of two hands of one rank-group category (high card, pair, three or
\* four of a kind) with the same secondary score, order_hands returns the
\* hand with the higher card at the first position where the kicker cards
\* of the two hands, taken in descending order of points, differ.
C13_KickersDecide ==
    TwoOfOneRankGroup =>
        \E d \in {FirstDifference(KickerPointsDescending(1), KickerPointsDescending(2))} :
            d # -1 =>
                /\ best_pos \in {1, 2}
                /\ KickerPointsDescending(best_pos)[d] > KickerPointsDescending(3 - best_pos)[d]

\* C14: when order_hands reports a draw and str_hand_comparison returns, the
\* hands the headline lists, each of them and no other, are marked 'Hand
\* included in the winning draw', and no hand is marked 'Winning hand'.
C14_DrawMarkers ==
    (pc = "done" /\ kicker_det = -1) =>
        \A h \in DOMAIN report :
            /\ report[h].marker # "Winning hand"
            /\ (report[h].marker = "Hand included in the winning draw")
                   <=> (h \in Range(win_statement.hands))

====
